---- MODULE Spec2Model ----
(***************************************************************************)
(* Model of crates/test_utils/src/lib.rs: the cursor-marker extractor,     *)
(* the tagged-range extractor, the fixture parser, the wildcard line       *)
(* matcher and the structural JSON comparator.                             *)
(*                                                                         *)
(* A Rust &str is a sequence of one-character strings; byte offsets are    *)
(* 0-based as in the source, so text[a..b] is Slice(text, a, b).           *)
(***************************************************************************)
EXTENDS Integers, Sequences, FiniteSets

VARIABLES
    \* marker extractor: the caller's text and offset, the text with the
    \* marker inserted, and what the extraction returned
    cur_pc, cur_text, cur_offset, cur_marked, cur_out,
    \* line matcher: the two arguments and the returned bool
    lm_pc, lm_expected, lm_actual, lm_result,
    \* JSON comparator: the two arguments, the two element lists of the
    \* array case after the retain pass, and the returned option
    js_pc, js_expected, js_actual, js_l, js_r, js_result,
    \* fixture parser: the argument, its lines as fixture.lines() yields
    \* them, the margin, the number of lines taken so far, and the locals
    \* res, buf and meta
    fx_pc, fx_fixture, fx_lines, fx_margin, fx_i, fx_res, fx_buf, fx_meta,
    \* tagged-range extractor: the place in the loop, the arguments, the
    \* rest of the text still to scan, and the locals res, stack and ranges
    er_pc, er_input, er_tag, er_text, er_res, er_stack, er_ranges

cur_vars == <<cur_pc, cur_text, cur_offset, cur_marked, cur_out>>

lm_vars == <<lm_pc, lm_expected, lm_actual, lm_result>>

js_vars == <<js_pc, js_expected, js_actual, js_l, js_r, js_result>>

fx_vars == <<fx_pc, fx_fixture, fx_lines, fx_margin, fx_i, fx_res, fx_buf, fx_meta>>

er_vars == <<er_pc, er_input, er_tag, er_text, er_res, er_stack, er_ranges>>

vars == <<cur_vars, lm_vars, js_vars, fx_vars, er_vars>>

cur_others == <<lm_vars, js_vars, fx_vars, er_vars>>

lm_others == <<cur_vars, js_vars, fx_vars, er_vars>>

js_others == <<cur_vars, lm_vars, fx_vars, er_vars>>

fx_others == <<cur_vars, lm_vars, js_vars, er_vars>>

er_others == <<cur_vars, lm_vars, js_vars, fx_vars>>

-----------------------------------------------------------------------------
(* Bounds of the model.                                                    *)

MaxCursorText == 6

MaxExpectedTokens == 3

MaxActualLen == 3

MaxArrayLen == 2

MaxFixtureLines == 4

MaxRangeTokens == 5

-----------------------------------------------------------------------------
(* str primitives of the Rust standard library, as the source uses them.   *)

\* text[a..b], 0-based, half open
Slice(text, a, b) == SubSeq(text, a + 1, b)

\* text[a..]
SliceFrom(text, a) == SubSeq(text, a + 1, Len(text))

\* text.starts_with(pat)
StartsWith(text, pat) ==
    /\ Len(pat) <= Len(text)
    /\ SubSeq(text, 1, Len(pat)) = pat

\* text.ends_with(pat)
EndsWith(text, pat) ==
    /\ Len(pat) <= Len(text)
    /\ SubSeq(text, Len(text) - Len(pat) + 1, Len(text)) = pat

\* the offsets at which pat occurs in text
Occurrences(text, pat) ==
    {i \in 0..(Len(text) - Len(pat)) : Slice(text, i, i + Len(pat)) = pat}

\* text.find(pat): the first offset at which pat occurs, None as -1
Find(text, pat) ==
    LET occ == Occurrences(text, pat)
    IN  IF occ = {} THEN -1
        ELSE CHOOSE i \in occ : \A j \in occ : i <= j

\* all sequences over alphabet of length at most n
SeqsUpTo(alphabet, n) == UNION {[1..k -> alphabet] : k \in 0..n}

None == [some |-> FALSE]

Some(v) == [some |-> TRUE, val |-> v]

-----------------------------------------------------------------------------
(* Marker extractor: try_extract_offset, try_extract_range, add_cursor.    *)

CURSOR_MARKER == <<"<", "|", ">">>

CursorAlphabet == {"<", "|", ">", "a"}

\* try_extract_offset, but the tail is taken from one byte after cursor_pos
try_extract_offset_short_skip(text) ==
    LET cursor_pos == Find(text, CURSOR_MARKER)
    IN  IF cursor_pos = -1 THEN None
        ELSE Some([pos  |-> cursor_pos,
                   text |-> Slice(text, 0, cursor_pos)
                            \o SliceFrom(text, cursor_pos + 1)])

try_extract_offset(text) ==
    LET cursor_pos == Find(text, CURSOR_MARKER)
    IN  IF cursor_pos = -1 THEN None
        ELSE Some([pos  |-> cursor_pos,
                   text |-> Slice(text, 0, cursor_pos)
                            \o SliceFrom(text, cursor_pos + Len(CURSOR_MARKER))])

\* TextRange::from_to is the text_unit crate's; the range is the two
\* offsets in the order they are passed
try_extract_range(text) ==
    LET first == try_extract_offset(text)
    IN  IF ~first.some THEN None
        ELSE LET second == try_extract_offset(first.val.text)
             IN  IF ~second.some THEN None
                 ELSE Some([start |-> first.val.pos,
                            end   |-> second.val.pos,
                            text  |-> second.val.text])

add_cursor(text, offset) ==
    Slice(text, 0, offset) \o <<"<", "|", ">">> \o SliceFrom(text, offset)

CurInit ==
    /\ cur_pc = "start"
    /\ cur_text \in SeqsUpTo(CursorAlphabet, MaxCursorText)
    /\ cur_offset \in 0..Len(cur_text)
    /\ cur_marked = <<>>
    /\ cur_out = None

\* a caller inserts the marker at a valid offset of the text
AddCursor ==
    /\ cur_pc = "start"
    /\ cur_marked' = add_cursor(cur_text, cur_offset)
    /\ cur_pc' = "marked"
    /\ UNCHANGED <<cur_text, cur_offset, cur_out>>
    /\ UNCHANGED cur_others

\* and extracts it again
ExtractOffset ==
    /\ cur_pc = "marked"
    /\ cur_out' = try_extract_offset(cur_marked)
    /\ cur_pc' = "extracted"
    /\ UNCHANGED <<cur_text, cur_offset, cur_marked>>
    /\ UNCHANGED cur_others

\* a caller extracts a range from the text as given
ExtractRange ==
    /\ cur_pc = "start"
    /\ cur_out' = try_extract_range(cur_text)
    /\ cur_pc' = "ranged"
    /\ UNCHANGED <<cur_text, cur_offset, cur_marked>>
    /\ UNCHANGED cur_others

CurIdle ==
    /\ cur_pc = "idle"
    /\ cur_text = <<>>
    /\ cur_offset = 0
    /\ cur_marked = <<>>
    /\ cur_out = None

-----------------------------------------------------------------------------
(* Line matcher: lines_match.                                              *)

WILDCARD == <<"[", ".", ".", "]">>

\* text.replace(from, to): the non-overlapping occurrences, left to right
RECURSIVE Replace(_, _, _)
Replace(text, from, to) ==
    LET j == Find(text, from)
    IN  IF j = -1 THEN text
        ELSE Slice(text, 0, j) \o to \o Replace(SliceFrom(text, j + Len(from)), from, to)

\* text.split(pat) for a non-empty pat, collected
RECURSIVE Split(_, _)
Split(text, pat) ==
    LET j == Find(text, pat)
    IN  IF j = -1 THEN <<text>>
        ELSE <<Slice(text, 0, j)>> \o Split(SliceFrom(text, j + Len(pat)), pat)

\* .replace("\\\\", "/").replace("\\", "/")
NormalizeSeparators(text) ==
    Replace(Replace(text, <<"\\", "\\">>, <<"/">>), <<"\\">>, <<"/">>)

\* the for loop over expected.split("[..]").enumerate(), from index i, and
\* the final expression; i is 0-based as in the source
RECURSIVE MatchParts(_, _, _, _)
MatchParts(expected, parts, i, actual) ==
    IF i >= Len(parts)
    THEN actual = <<>> \/ EndsWith(expected, WILDCARD)
    ELSE LET part == parts[i + 1]
             j    == Find(actual, part)
         IN  IF j = -1 THEN FALSE
             ELSE IF i = 0 /\ j # 0 THEN FALSE
             ELSE MatchParts(expected, parts, i + 1,
                             SliceFrom(actual, j + Len(part)))

lines_match(expected, actual) ==
    LET e == NormalizeSeparators(expected)
        a == NormalizeSeparators(actual)
    IN  MatchParts(e, Split(e, WILDCARD), 0, a)

RECURSIVE Flatten(_)
Flatten(seqs) ==
    IF seqs = <<>> THEN <<>> ELSE Head(seqs) \o Flatten(Tail(seqs))

ExpectedTokens == {<<"a">>, <<"b">>, <<"\\">>, WILDCARD}

ActualAlphabet == {"a", "b", "\\", "/"}

LmInit ==
    /\ lm_pc = "start"
    /\ lm_expected \in {Flatten(ts) : ts \in SeqsUpTo(ExpectedTokens, MaxExpectedTokens)}
    /\ lm_actual \in SeqsUpTo(ActualAlphabet, MaxActualLen)
    /\ lm_result = FALSE

LmIdle ==
    /\ lm_pc = "idle"
    /\ lm_expected = <<>>
    /\ lm_actual = <<>>
    /\ lm_result = FALSE

LinesMatch ==
    /\ lm_pc = "start"
    /\ lm_result' = lines_match(lm_expected, lm_actual)
    /\ lm_pc' = "done"
    /\ UNCHANGED <<lm_expected, lm_actual>>
    /\ UNCHANGED lm_others

-----------------------------------------------------------------------------
(* JSON comparator: find_mismatch over serde_json::Value.                  *)

Null == [k |-> "null"]

Bool(b) == [k |-> "bool", b |-> b]

Number(n) == [k |-> "number", n |-> n]

String(s) == [k |-> "string", s |-> s]

Array(a) == [k |-> "array", a |-> a]

\* a serde_json Map iterates in key order: the entries, sorted by key
Object(m) == [k |-> "object", m |-> m]

ANY_JSON == <<"{", ".", ".", ".", "}">>

\* what find_mismatch returns; "panic" stands for a failed assertion
MatchNone == [tag |-> "None"]

Mismatch(e, a) == [tag |-> "Some", expected |-> e, actual |-> a]

Panicked == [tag |-> "panic"]

\* Vec::remove(i), i 0-based
RemoveAt(s, i) == SubSeq(s, 1, i) \o SubSeq(s, i + 2, Len(s))

\* the verdict of the array case once l.retain(..) has run
ArrayVerdict(l, r) ==
    IF l # <<>>
    THEN IF r = <<>> THEN Panicked ELSE Mismatch(l[1], r[1])
    ELSE IF Len(r) # 0 THEN Panicked ELSE MatchNone

RECURSIVE find_mismatch(_, _)
RECURSIVE Position(_, _, _)
RECURSIVE Retain(_, _, _, _)
RECURSIVE FirstValueMismatch(_, _, _)

RECURSIVE Retain_without_remove(_, _, _, _)

\* r.iter().position(|r| find_mismatch(l, r).is_none()) from index i:
\* the index found, -1 for None, -2 when a nested call panicked
Position(l, r, i) ==
    IF i >= Len(r) THEN -1
    ELSE LET m == find_mismatch(l, r[i + 1])
         IN  IF m.tag = "panic" THEN -2
             ELSE IF m.tag = "None" THEN i
             ELSE Position(l, r, i + 1)

\* Retain, but a matched element of r is not removed
Retain_without_remove(l, r, i, kept) ==
    IF i >= Len(l) THEN [l |-> kept, r |-> r, panic |-> FALSE]
    ELSE LET p == Position(l[i + 1], r, 0)
         IN  IF p = -2 THEN [l |-> kept, r |-> r, panic |-> TRUE]
             ELSE IF p = -1
             THEN Retain_without_remove(l, r, i + 1, Append(kept, l[i + 1]))
             ELSE Retain_without_remove(l, r, i + 1, kept)

\* l.retain(|l| ..) from index i of l, with the elements kept so far
Retain(l, r, i, kept) ==
    IF i >= Len(l) THEN [l |-> kept, r |-> r, panic |-> FALSE]
    ELSE LET p == Position(l[i + 1], r, 0)
         IN  IF p = -2 THEN [l |-> kept, r |-> r, panic |-> TRUE]
             ELSE IF p = -1 THEN Retain(l, r, i + 1, Append(kept, l[i + 1]))
             ELSE Retain(l, RemoveAt(r, p), i + 1, kept)

\* l.values().zip(r.values()).filter_map(..).nth(0) from index i
FirstValueMismatch(l, r, i) ==
    IF i >= Len(l) \/ i >= Len(r) THEN MatchNone
    ELSE LET m == find_mismatch(l[i + 1].value, r[i + 1].value)
         IN  IF m.tag = "None" THEN FirstValueMismatch(l, r, i + 1) ELSE m

Keys(m) == {m[i].key : i \in 1..Len(m)}

find_mismatch(expected, actual) ==
    IF expected.k = "number" /\ actual.k = "number" /\ expected.n = actual.n
    THEN MatchNone
    ELSE IF expected.k = "bool" /\ actual.k = "bool" /\ expected.b = actual.b
    THEN MatchNone
    ELSE IF /\ expected.k = "string" /\ actual.k = "string"
            /\ lines_match(expected.s, actual.s)
    THEN MatchNone
    ELSE IF expected.k = "array" /\ actual.k = "array"
    THEN IF Len(expected.a) # Len(actual.a) THEN Mismatch(expected, actual)
         ELSE LET rt == Retain(expected.a, actual.a, 0, <<>>)
              IN  IF rt.panic THEN Panicked ELSE ArrayVerdict(rt.l, rt.r)
    ELSE IF expected.k = "object" /\ actual.k = "object"
    THEN LET same_keys ==
                 /\ Len(expected.m) = Len(actual.m)
                 /\ \A key \in Keys(expected.m) : key \in Keys(actual.m)
         IN  IF ~same_keys THEN Mismatch(expected, actual)
             ELSE FirstValueMismatch(expected.m, actual.m, 0)
    ELSE IF expected.k = "null" /\ actual.k = "null"
    THEN MatchNone
    ELSE IF expected.k = "string" /\ expected.s = ANY_JSON
    THEN MatchNone
    ELSE Mismatch(expected, actual)

JsonLeaves ==
    {Null, Bool(TRUE), Number(1), Number(2),
     String(<<"a">>), String(WILDCARD), String(ANY_JSON)}

JsonArrays(elements) == {Array(a) : a \in SeqsUpTo(elements, MaxArrayLen)}

JsonObjects ==
    LET values == {Number(1), Number(2), String(WILDCARD)}
    IN  {Object(<<>>)}
        \cup {Object(<<[key |-> key, value |-> v]>>) : key \in {"x", "y"}, v \in values}
        \cup {Object(<<[key |-> "x", value |-> v], [key |-> "y", value |-> w]>>) :
                 v \in values, w \in values}

JsonNested ==
    {Array(<<v, w>>) :
        v \in {Array(<<Number(1), String(ANY_JSON)>>), Array(<<Number(2), Number(1)>>)},
        w \in {Array(<<String(<<"a">>), Number(1)>>),
               Object(<<[key |-> "x", value |-> Array(<<Number(1)>>)]>>)}}

JsonValues == JsonLeaves \cup JsonArrays(JsonLeaves) \cup JsonObjects \cup JsonNested

JsInit ==
    /\ js_pc = "start"
    /\ js_expected \in JsonValues
    /\ js_actual \in JsonValues
    /\ js_l = <<>>
    /\ js_r = <<>>
    /\ js_result = MatchNone

JsIdle ==
    /\ js_pc = "idle"
    /\ js_expected = Null
    /\ js_actual = Null
    /\ js_l = <<>>
    /\ js_r = <<>>
    /\ js_result = MatchNone

BothArrays ==
    /\ js_expected.k = "array"
    /\ js_actual.k = "array"
    /\ Len(js_expected.a) = Len(js_actual.a)

\* the array arm up to the end of l.retain(..)
FindMismatchRetain ==
    /\ js_pc = "start"
    /\ BothArrays
    /\ LET rt == Retain(js_expected.a, js_actual.a, 0, <<>>)
       IN  /\ js_l' = rt.l
           /\ js_r' = rt.r
           /\ js_pc' = IF rt.panic THEN "panic" ELSE "retained"
    /\ UNCHANGED <<js_expected, js_actual, js_result>>
    /\ UNCHANGED js_others

\* the array arm from `if !l.is_empty()` on
FindMismatchVerdict ==
    /\ js_pc = "retained"
    /\ js_result' = ArrayVerdict(js_l, js_r)
    /\ js_pc' = IF js_result'.tag = "panic" THEN "panic" ELSE "done"
    /\ UNCHANGED <<js_expected, js_actual, js_l, js_r>>
    /\ UNCHANGED js_others

\* every other arm
FindMismatchOther ==
    /\ js_pc = "start"
    /\ ~BothArrays
    /\ js_result' = find_mismatch(js_expected, js_actual)
    /\ js_pc' = IF js_result'.tag = "panic" THEN "panic" ELSE "done"
    /\ UNCHANGED <<js_expected, js_actual, js_l, js_r>>
    /\ UNCHANGED js_others

-----------------------------------------------------------------------------
(* Fixture parser: parse_fixture.                                          *)

SENTINEL == <<"/", "/", "-">>

\* char::is_whitespace, on the characters the model uses
IsWhitespace(c) == c \in {" ", "\t", "\n", "\r"}

RECURSIVE TrimStart(_)
TrimStart(s) ==
    IF s # <<>> /\ IsWhitespace(Head(s)) THEN TrimStart(Tail(s)) ELSE s

RECURSIVE TrimEnd(_)
TrimEnd(s) ==
    IF s # <<>> /\ IsWhitespace(s[Len(s)]) THEN TrimEnd(SubSeq(s, 1, Len(s) - 1))
    ELSE s

Trim(s) == TrimEnd(TrimStart(s))

\* str::lines(): the pieces between "\n", without a trailing "\r" each, and
\* without the empty piece after a final "\n"
Lines(text) ==
    LET pieces == Split(text, <<"\n">>)
        kept   == IF pieces[Len(pieces)] = <<>>
                  THEN SubSeq(pieces, 1, Len(pieces) - 1) ELSE pieces
    IN  [i \in 1..Len(kept) |->
            IF EndsWith(kept[i], <<"\r">>)
            THEN SubSeq(kept[i], 1, Len(kept[i]) - 1) ELSE kept[i]]

\* Margin, but the least indentation of a meta line, not the first one's
Margin_least(lines) ==
    LET meta_lines == {i \in 1..Len(lines) : StartsWith(TrimStart(lines[i]), SENTINEL)}
    IN  IF meta_lines = {} THEN -1
        ELSE LET least == CHOOSE i \in meta_lines : \A j \in meta_lines :
                              Len(lines[i]) - Len(TrimStart(lines[i]))
                                  <= Len(lines[j]) - Len(TrimStart(lines[j]))
             IN  Len(lines[least]) - Len(TrimStart(lines[least]))

\* the margin: .filter(..).map(..).next(), None as -1
Margin(lines) ==
    LET meta_lines == {i \in 1..Len(lines) : StartsWith(TrimStart(lines[i]), SENTINEL)}
    IN  IF meta_lines = {} THEN -1
        ELSE LET first == CHOOSE i \in meta_lines : \A j \in meta_lines : i <= j
             IN  Len(lines[first]) - Len(TrimStart(lines[first]))

\* the closure of filter_map on one line: "panic" for a failed assertion,
\* "skip" for None, "line" with the logical line for Some
StripMargin(line, margin) ==
    IF Len(line) >= margin
    THEN IF Trim(Slice(line, 0, margin)) = <<>>
         THEN [kind |-> "line", line |-> SliceFrom(line, margin)]
         ELSE [kind |-> "panic"]
    ELSE IF Trim(line) = <<>> THEN [kind |-> "skip"] ELSE [kind |-> "panic"]

\* flush!() on the locals st = [res, buf, meta]
Flush(st) ==
    IF st.meta.some
    THEN [st EXCEPT !.res = Append(@, [meta |-> st.meta.val, text |-> st.buf]),
                    !.buf = <<>>]
    ELSE st

\* LoopBody, but without the buf.clear() that follows flush!()
LoopBody_without_clear(st, line) ==
    IF StartsWith(line, SENTINEL)
    THEN [Flush(st) EXCEPT !.meta = Some(Trim(SliceFrom(line, Len(SENTINEL))))]
    ELSE [st EXCEPT !.buf = @ \o line \o <<"\n">>]

\* the body of `for line in lines` on the locals st = [res, buf, meta]
LoopBody(st, line) ==
    IF StartsWith(line, SENTINEL)
    THEN [Flush(st) EXCEPT !.buf = <<>>,
                           !.meta = Some(Trim(SliceFrom(line, Len(SENTINEL))))]
    ELSE [st EXCEPT !.buf = @ \o line \o <<"\n">>]

RECURSIVE Join(_, _)
Join(seqs, sep) ==
    IF seqs = <<>> THEN <<>>
    ELSE IF Len(seqs) = 1 THEN seqs[1]
    ELSE seqs[1] \o sep \o Join(Tail(seqs), sep)

FixtureLines ==
    {<<"/", "/", "-", "m">>,
     <<" ", "/", "/", "-", "m">>,
     <<" ", " ", "/", "/", "-", " ", "n", " ">>,
     <<"x">>,
     <<" ", "x">>,
     <<>>,
     <<" ">>}

FxLocals == [res |-> fx_res, buf |-> fx_buf, meta |-> fx_meta]

FxInit ==
    /\ fx_pc = "start"
    /\ fx_fixture \in {Join(ls, <<"\n">>) : ls \in SeqsUpTo(FixtureLines, MaxFixtureLines)}
    /\ fx_lines = <<>>
    /\ fx_margin = 0
    /\ fx_i = 0
    /\ fx_res = <<>>
    /\ fx_buf = <<>>
    /\ fx_meta = None

FxIdle ==
    /\ fx_pc = "idle"
    /\ fx_fixture = <<>>
    /\ fx_lines = <<>>
    /\ fx_margin = 0
    /\ fx_i = 0
    /\ fx_res = <<>>
    /\ fx_buf = <<>>
    /\ fx_meta = None

\* let margin = .. .expect("empty fixture")
ParseFixtureMargin ==
    /\ fx_pc = "start"
    /\ fx_lines' = Lines(fx_fixture)
    /\ LET margin == Margin(fx_lines')
       IN  IF margin = -1
           THEN fx_pc' = "panic" /\ UNCHANGED fx_margin
           ELSE fx_pc' = "lines" /\ fx_margin' = margin
    /\ UNCHANGED <<fx_fixture, fx_i, fx_res, fx_buf, fx_meta>>
    /\ UNCHANGED fx_others

\* one more line is pulled through filter_map and the loop body
ParseFixtureLine ==
    /\ fx_pc = "lines"
    /\ fx_i < Len(fx_lines)
    /\ LET line == StripMargin(fx_lines[fx_i + 1], fx_margin)
           st   == IF line.kind = "line" THEN LoopBody(FxLocals, line.line)
                   ELSE FxLocals
       IN  /\ fx_pc' = IF line.kind = "panic" THEN "panic" ELSE "lines"
           /\ fx_res' = st.res
           /\ fx_buf' = st.buf
           /\ fx_meta' = st.meta
    /\ fx_i' = fx_i + 1
    /\ UNCHANGED <<fx_fixture, fx_lines, fx_margin>>
    /\ UNCHANGED fx_others

\* the lines are exhausted: the last flush!()
ParseFixtureEnd ==
    /\ fx_pc = "lines"
    /\ fx_i = Len(fx_lines)
    /\ LET st == Flush(FxLocals)
       IN  /\ fx_res' = st.res
           /\ fx_buf' = st.buf
           /\ fx_meta' = st.meta
    /\ fx_pc' = "done"
    /\ UNCHANGED <<fx_fixture, fx_lines, fx_margin, fx_i>>
    /\ UNCHANGED fx_others

-----------------------------------------------------------------------------
(* Tagged-range extractor: extract_ranges.                                 *)

OpenTag(tag) == <<"<">> \o tag \o <<">">>

CloseTag(tag) == <<"<", "/">> \o tag \o <<">">>

RangeLess(a, b) == a.start < b.start \/ (a.start = b.start /\ a.end < b.end)

\* ranges.sort_by_key(|r| (r.start(), r.end())): a stable insertion sort
RECURSIVE InsertRange(_, _)
InsertRange(sorted, r) ==
    IF sorted = <<>> THEN <<r>>
    ELSE IF RangeLess(r, Head(sorted)) THEN <<r>> \o sorted
    ELSE <<Head(sorted)>> \o InsertRange(Tail(sorted), r)

\* SortRanges, but the ranges stay in the order their close tags came
SortRanges_unsorted(ranges) == ranges

RECURSIVE SortRanges(_)
SortRanges(ranges) ==
    IF ranges = <<>> THEN <<>>
    ELSE InsertRange(SortRanges(SubSeq(ranges, 1, Len(ranges) - 1)),
                     ranges[Len(ranges)])

RangeTags == {<<"t">>, <<"u">>}

RangeTokens ==
    {<<"<", "t", ">">>, <<"<", "/", "t", ">">>,
     <<"<", "u", ">">>, <<"<", "/", "u", ">">>,
     <<"a">>}

ErInit ==
    /\ er_pc = "loop"
    /\ er_input \in {Flatten(ts) : ts \in SeqsUpTo(RangeTokens, MaxRangeTokens)}
    /\ er_tag \in RangeTags
    /\ er_text = er_input
    /\ er_res = <<>>
    /\ er_stack = <<>>
    /\ er_ranges = <<>>

ErIdle ==
    /\ er_pc = "idle"
    /\ er_input = <<>>
    /\ er_tag = <<>>
    /\ er_text = <<>>
    /\ er_res = <<>>
    /\ er_stack = <<>>
    /\ er_ranges = <<>>

\* text.find('<') is None: the rest is copied and the loop left
ScanRest ==
    /\ er_pc = "loop"
    /\ Find(er_text, <<"<">>) = -1
    /\ er_res' = er_res \o er_text
    /\ er_pc' = "after_loop"
    /\ UNCHANGED <<er_input, er_tag, er_text, er_stack, er_ranges>>
    /\ UNCHANGED er_others

\* text.find('<') is Some(i): the text before it is copied and text now
\* starts at that '<'
ScanToAngle ==
    /\ er_pc = "loop"
    /\ LET i == Find(er_text, <<"<">>)
       IN  /\ i # -1
           /\ er_res' = er_res \o Slice(er_text, 0, i)
           /\ er_text' = SliceFrom(er_text, i)
    /\ er_pc' = "at_angle"
    /\ UNCHANGED <<er_input, er_tag, er_stack, er_ranges>>
    /\ UNCHANGED er_others

\* text starts with the open tag
ScanOpen ==
    /\ er_pc = "at_angle"
    /\ StartsWith(er_text, OpenTag(er_tag))
    /\ er_text' = SliceFrom(er_text, Len(OpenTag(er_tag)))
    /\ er_stack' = Append(er_stack, Len(er_res))
    /\ er_pc' = "loop"
    /\ UNCHANGED <<er_input, er_tag, er_res, er_ranges>>
    /\ UNCHANGED er_others

\* text starts with the close tag
ScanClose ==
    /\ er_pc = "at_angle"
    /\ ~StartsWith(er_text, OpenTag(er_tag))
    /\ StartsWith(er_text, CloseTag(er_tag))
    /\ er_text' = SliceFrom(er_text, Len(CloseTag(er_tag)))
    /\ IF er_stack = <<>>
       THEN /\ er_pc' = "panic_close"
            /\ UNCHANGED <<er_stack, er_ranges>>
       ELSE /\ er_stack' = SubSeq(er_stack, 1, Len(er_stack) - 1)
            /\ er_ranges' = Append(er_ranges,
                                   [start |-> er_stack[Len(er_stack)],
                                    end   |-> Len(er_res)])
            /\ er_pc' = "loop"
    /\ UNCHANGED <<er_input, er_tag, er_res>>
    /\ UNCHANGED er_others

\* text starts with neither tag: no branch of the if / else if runs, and
\* the loop goes round with text still at that '<'
ScanOther ==
    /\ er_pc = "at_angle"
    /\ ~StartsWith(er_text, OpenTag(er_tag))
    /\ ~StartsWith(er_text, CloseTag(er_tag))
    /\ er_pc' = "loop"
    /\ UNCHANGED <<er_input, er_tag, er_text, er_res, er_stack, er_ranges>>
    /\ UNCHANGED er_others

\* ExtractRangesReturn, but without the assertion on the stack
ExtractRangesReturn_without_assert ==
    /\ er_pc = "after_loop"
    /\ er_pc' = "done"
    /\ er_ranges' = er_ranges
    /\ UNCHANGED <<er_input, er_tag, er_text, er_res, er_stack>>
    /\ UNCHANGED er_others

\* after the loop: the assertion, the sort and the return
ExtractRangesReturn ==
    /\ er_pc = "after_loop"
    /\ IF er_stack # <<>>
       THEN er_pc' = "panic_open" /\ UNCHANGED er_ranges
       ELSE er_pc' = "done" /\ er_ranges' = SortRanges(er_ranges)
    /\ UNCHANGED <<er_input, er_tag, er_text, er_res, er_stack>>
    /\ UNCHANGED er_others

-----------------------------------------------------------------------------
(* Specifications: one per component; the components share no state.       *)

InitCursor == CurInit /\ LmIdle /\ JsIdle /\ FxIdle /\ ErIdle

NextCursor ==
    \/ AddCursor
    \/ ExtractOffset
    \/ ExtractRange

SpecCursor == InitCursor /\ [][NextCursor]_vars

InitLines == LmInit /\ CurIdle /\ JsIdle /\ FxIdle /\ ErIdle

NextLines ==
    \/ LinesMatch

SpecLines == InitLines /\ [][NextLines]_vars

InitJson == JsInit /\ CurIdle /\ LmIdle /\ FxIdle /\ ErIdle

NextJson ==
    \/ FindMismatchRetain
    \/ FindMismatchVerdict
    \/ FindMismatchOther

SpecJson == InitJson /\ [][NextJson]_vars

InitFixture == FxInit /\ CurIdle /\ LmIdle /\ JsIdle /\ ErIdle

NextFixture ==
    \/ ParseFixtureMargin
    \/ ParseFixtureLine
    \/ ParseFixtureEnd

SpecFixture == InitFixture /\ [][NextFixture]_vars

InitRanges == ErInit /\ CurIdle /\ LmIdle /\ JsIdle /\ FxIdle

NextRanges ==
    \/ ScanRest
    \/ ScanToAngle
    \/ ScanOpen
    \/ ScanClose
    \/ ScanOther
    \/ ExtractRangesReturn

SpecRanges == InitRanges /\ [][NextRanges]_vars

\* the call is a running thread: a step of it that is possible is taken
FairSpecRanges == SpecRanges /\ WF_vars(NextRanges)

-----------------------------------------------------------------------------
(* Marker extractor: properties.                                           *)

HasMarker(text) == Occurrences(text, CURSOR_MARKER) # {}

\* C1: for a text without the marker and an offset within it, inserting the
\* marker puts its first occurrence at the offset, and extracting it again
\* returns the offset and the text.
C1_RoundTrip ==
    /\ (cur_pc \in {"marked", "extracted"} /\ ~HasMarker(cur_text))
          => Find(cur_marked, CURSOR_MARKER) = cur_offset
    /\ (cur_pc = "extracted" /\ ~HasMarker(cur_text))
          => cur_out = Some([pos |-> cur_offset, text |-> cur_text])

\* the marker was inserted right after "<|", where an earlier occurrence
\* would have to straddle the insertion point
C1_Witness ==
    /\ cur_pc = "extracted"
    /\ ~HasMarker(cur_text)
    /\ cur_offset >= 2
    /\ Slice(cur_text, cur_offset - 2, cur_offset) = <<"<", "|">>
    /\ SliceFrom(cur_text, cur_offset) = <<"|", ">">>
    /\ cur_out.some

\* C10: every range try_extract_range returns has start <= end, and it
\* returns None when the text holds fewer than two markers.
C10_RangeOrdered ==
    cur_pc = "ranged" =>
        /\ cur_out.some => cur_out.val.start <= cur_out.val.end
        /\ Cardinality(Occurrences(cur_text, CURSOR_MARKER)) < 2 => ~cur_out.some

-----------------------------------------------------------------------------
(* Line matcher: properties.                                               *)

\* actual is parts[k] X parts[k+1] X ... parts[n] for some runs X
RECURSIVE WildcardMatch(_, _, _)
WildcardMatch(parts, k, actual) ==
    IF k = Len(parts) THEN actual = parts[k]
    ELSE /\ StartsWith(actual, parts[k])
         /\ \E m \in Len(parts[k])..Len(actual) :
                WildcardMatch(parts, k + 1, SliceFrom(actual, m))

\* C2: lines_match returns true exactly when the normalized actual is the
\* normalized expected with each [..] replaced by some run of characters.
C2_WildcardGrammar ==
    lm_pc = "done" =>
        (lm_result <=>
            WildcardMatch(Split(NormalizeSeparators(lm_expected), WILDCARD), 1,
                          NormalizeSeparators(lm_actual)))

-----------------------------------------------------------------------------
(* JSON comparator: properties.                                            *)

IndexPermutations(n) ==
    {p \in [1..n -> 1..n] : \A i, j \in 1..n : p[i] = p[j] => i = j}

Permute(s, p) == [i \in 1..Len(s) |-> s[p[i]]]

\* C3: whether two arrays match is unchanged by permuting the elements of
\* either of them.
C3_OrderInsensitive ==
    (js_pc = "done" /\ js_expected.k = "array" /\ js_actual.k = "array") =>
        \A p \in IndexPermutations(Len(js_expected.a)) :
            \A q \in IndexPermutations(Len(js_actual.a)) :
                (find_mismatch(Array(Permute(js_expected.a, p)),
                               Array(Permute(js_actual.a, q))).tag = "None")
                    <=> (js_result.tag = "None")

\* s is t with some elements left out
RECURSIVE IsSubsequence(_, _)
IsSubsequence(s, t) ==
    IF s = <<>> THEN TRUE
    ELSE IF t = <<>> THEN FALSE
    ELSE IF Head(s) = Head(t) THEN IsSubsequence(Tail(s), Tail(t))
    ELSE IsSubsequence(s, Tail(t))

\* C8: find_mismatch never panics; after the retain pass as many expected
\* elements are left as actual elements, none of the former matches any of
\* the latter, and a mismatch reports the first of each.
C8_NeverAborts ==
    /\ js_pc # "panic"
    /\ js_pc \in {"retained", "done"} =>
          /\ Len(js_l) = Len(js_r)
          /\ \A i \in 1..Len(js_l) : \A j \in 1..Len(js_r) :
                 find_mismatch(js_l[i], js_r[j]).tag = "Some"
    /\ (js_pc = "done" /\ BothArrays) =>
          /\ IsSubsequence(js_l, js_expected.a)
          /\ IsSubsequence(js_r, js_actual.a)
          /\ js_result = IF js_l = <<>> THEN MatchNone
                         ELSE Mismatch(js_l[1], js_r[1])

\* a mismatch was reported after some elements were paired and others not
C8_Witness ==
    /\ js_pc = "done"
    /\ BothArrays
    /\ js_result.tag = "Some"
    /\ Len(js_l) = 1
    /\ Len(js_expected.a) = 2
    /\ js_result.expected = js_expected.a[2]
    /\ js_result.actual = js_actual.a[1]

-----------------------------------------------------------------------------
(* Fixture parser: properties.  They read the fixture's lines, fx_lines,   *)
(* which are set from the first step of the call on.                       *)

\* a line whose left-trimmed form starts with the sentinel
MetaLooking(line) == StartsWith(TrimStart(line), SENTINEL)

Indent(line) == Len(line) - Len(TrimStart(line))

MetaLookingLines == {i \in 1..Len(fx_lines) : MetaLooking(fx_lines[i])}

\* the indentation of the first meta-looking line
FirstMetaIndent ==
    LET looking == MetaLookingLines
    IN  Indent(fx_lines[CHOOSE i \in looking : \A j \in looking : i <= j])

\* the raw lines that are long enough to have a logical line under margin m
KeptLines(m) == {i \in 1..Len(fx_lines) : Len(fx_lines[i]) >= m}

\* the meta lines under margin m
MetaLines(m) ==
    {i \in KeptLines(m) : StartsWith(SliceFrom(fx_lines[i], m), SENTINEL)}

\* the logical lines from raw line i up to, not including, raw line stop
RECURSIVE BodyBetween(_, _, _)
BodyBetween(m, i, stop) ==
    IF i >= stop THEN <<>>
    ELSE (IF Len(fx_lines[i]) >= m THEN SliceFrom(fx_lines[i], m) \o <<"\n">>
          ELSE <<>>)
         \o BodyBetween(m, i + 1, stop)

\* the first of the meta lines after raw line i, or one past the last line
NextMetaLine(metas, i) ==
    LET later == {j \in metas : j > i}
    IN  IF later = {} THEN Len(fx_lines) + 1
        ELSE CHOOSE j \in later : \A k \in later : j <= k

\* C4: an accepted fixture yields one entry per meta line, in order; the
\* entry's meta is the trimmed rest of the meta line and its text is the
\* logical lines up to the next meta line, each followed by a newline.
C4_EntriesPerMetaLine ==
    fx_pc = "done" =>
        LET m     == FirstMetaIndent
            metas == MetaLines(m)
        IN  /\ Len(fx_res) = Cardinality(metas)
            /\ \A i \in metas :
                   LET k == Cardinality({j \in metas : j <= i})
                   IN  /\ fx_res[k].meta =
                              Trim(SliceFrom(fx_lines[i], m + Len(SENTINEL)))
                       /\ fx_res[k].text =
                              BodyBetween(m, i + 1, NextMetaLine(metas, i))

\* two entries, the first with a body, came out of an indented fixture that
\* has a line before the first meta line
C4_Witness ==
    /\ fx_pc = "done"
    /\ Len(fx_res) = 2
    /\ fx_margin > 0
    /\ 1 \notin MetaLines(fx_margin)
    /\ Len(fx_lines[1]) > fx_margin
    /\ fx_res[1].text # <<>>

NonBlank(s) == \E j \in 1..Len(s) : ~IsWhitespace(s[j])

\* the three ways a fixture is malformed
EmptyFixture == MetaLookingLines = {}

BadMargin(m) ==
    \E i \in 1..Len(fx_lines) :
        /\ Len(fx_lines[i]) >= m
        /\ NonBlank(Slice(fx_lines[i], 0, m))

BadShortLine(m) ==
    \E i \in 1..Len(fx_lines) :
        /\ Len(fx_lines[i]) < m
        /\ NonBlank(fx_lines[i])

Malformed ==
    \/ EmptyFixture
    \/ LET m == FirstMetaIndent IN BadMargin(m) \/ BadShortLine(m)

\* C9: parse_fixture fails exactly on a fixture without a meta line, with a
\* non-blank margin or with a non-blank line shorter than the margin; on an
\* accepted fixture the margin is the least indentation of a meta line.
C9_FailsExactlyWhenMalformed ==
    /\ fx_pc = "panic" => Malformed
    /\ fx_pc = "done" => ~Malformed
    /\ fx_pc = "done" =>
          /\ fx_margin = FirstMetaIndent
          /\ \A i \in MetaLookingLines : fx_margin <= Indent(fx_lines[i])

\* a fixture was rejected for a later meta line indented less than the first
C9_Witness ==
    /\ fx_pc = "panic"
    /\ ~EmptyFixture
    /\ \E i \in MetaLookingLines : Indent(fx_lines[i]) < FirstMetaIndent

-----------------------------------------------------------------------------
(* Tagged-range extractor: properties.                                     *)

OpenAt == Occurrences(er_input, OpenTag(er_tag))

CloseAt == Occurrences(er_input, CloseTag(er_tag))

\* the tags that start before offset k: opens minus closes
Depth(k) ==
    Cardinality({i \in OpenAt : i < k}) - Cardinality({i \in CloseAt : i < k})

\* the close tags met at depth 0
UnmatchedCloseAt == {j \in CloseAt : Depth(j) = 0}

WellNested == UnmatchedCloseAt = {} /\ Depth(Len(er_input)) = 0

\* offset p lies inside an open or a close tag
InTag(p) ==
    \/ \E i \in OpenAt : i <= p /\ p < i + Len(OpenTag(er_tag))
    \/ \E i \in CloseAt : i <= p /\ p < i + Len(CloseTag(er_tag))

RECURSIVE WithoutTags(_)
WithoutTags(p) ==
    IF p >= Len(er_input) THEN <<>>
    ELSE (IF InTag(p) THEN <<>> ELSE <<er_input[p + 1]>>) \o WithoutTags(p + 1)

\* the length of the cleaned text before offset k
CleanLen(k) == Cardinality({p \in 0..(k - 1) : ~InTag(p)})

\* the open tag the close tag at j closes: the last one before it at its depth
Partner(j) ==
    LET opens == {i \in OpenAt : i < j /\ Depth(i) = Depth(j) - 1}
    IN  CHOOSE i \in opens : \A k \in opens : k <= i

PairRange(j) == [start |-> CleanLen(Partner(j)), end |-> CleanLen(j)]

Consumed == Len(er_input) - Len(er_text)

C7_Terminates == <>(er_pc \in {"done", "panic_close", "panic_open"})

====
